---- MODULE Spec2Model ----
(***************************************************************************)
(* Three-state counter (core.js, the sync/async engine): in-memory value,  *)
(* append-only operation log, SQLite snapshot.  One action is one          *)
(* synchronous run of JavaScript between two suspension points (await,     *)
(* timer, I/O completion).                                                 *)
(***************************************************************************)
EXTENDS Integers, Sequences, FiniteSets, TLC

\* ---------------------------------------------------------------- bounds
MaxOps == 2
MaxCrashes == 1
MaxFlushCalls == 1
MaxFaults == 1
MaxLogLen == 4
MaxReads == 1
MaxSetups == 2
MaxReuses == 1

\* deltas the caller passes to increment() / decrement()
IncDeltas == {12}
DecDeltas == {5}
\* flushEvery values the instance is constructed with
FlushEveryChoices == {0, 2, 10}
\* flushEvery values of the threshold scenario
ThresholdChoices == {1, 2}
Modes == {"sync", "async"}
\* mode options a caller may pass to the constructor
\* the arguments initial and jump of setup()
SetupInitials == {0, 5}
Jumps == {12, 0 - 5}
\* the argument val of fn.reset()
ResetValues == {0, 3}
ModeInputs == {"sync", "async", "batch"}

\* ------------------------------------------------------- text of the log
NL == "\n"
SP == " "
Digit == <<"0", "1", "2", "3", "4", "5", "6", "7", "8", "9">>
\* the result of parseInt: NaN, or a number
NaN == [nan |-> TRUE, val |-> 0]
Num(n) == [nan |-> FALSE, val |-> n]

IsDigit(ch) == \E i \in 1..10 : Digit[i] = ch
DigitVal(ch) == (CHOOSE i \in 1..10 : Digit[i] = ch) - 1
IsSpace(ch) == ch = NL \/ ch = SP

RECURSIVE Digits(_)
Digits(n) == IF n < 10 THEN <<Digit[n + 1]>>
             ELSE Digits(n \div 10) \o <<Digit[(n % 10) + 1]>>

\* the record without its line terminator
FormatDeltaNoNewline(delta) ==
    IF delta < 0 THEN <<"-">> \o Digits(-delta) ELSE Digits(delta)

\* `${delta}\n` : the template literal of _logOperationSync
FormatDelta(delta) ==
    (IF delta < 0 THEN <<"-">> \o Digits(-delta) ELSE Digits(delta)) \o <<NL>>

\* toWrite.join("\n") + "\n" : the batch of _flushWriteBuffer
RECURSIVE JoinBatch(_)
JoinBatch(toWrite) ==
    IF toWrite = <<>> THEN <<NL>>
    ELSE IF Len(toWrite) = 1 THEN FormatDelta(toWrite[1])
    ELSE FormatDelta(toWrite[1]) \o JoinBatch(Tail(toWrite))

RECURSIVE TrimLeft(_)
TrimLeft(s) == IF s # <<>> /\ IsSpace(Head(s)) THEN TrimLeft(Tail(s)) ELSE s

RECURSIVE TrimRight(_)
TrimRight(s) == IF s # <<>> /\ IsSpace(s[Len(s)])
                THEN TrimRight(SubSeq(s, 1, Len(s) - 1)) ELSE s

\* String.prototype.trim
Trim(s) == TrimRight(TrimLeft(s))

\* String.prototype.split("\n")
RECURSIVE Split(_)
Split(s) ==
    IF \A i \in 1..Len(s) : s[i] # NL THEN <<s>>
    ELSE LET k == CHOOSE i \in 1..Len(s) :
                      s[i] = NL /\ \A j \in 1..(i - 1) : s[j] # NL
         IN  <<SubSeq(s, 1, k - 1)>> \o Split(SubSeq(s, k + 1, Len(s)))

RECURSIVE DigitRun(_, _)
\* value of the longest prefix of decimal digits of s, continuing from acc
DigitRun(s, acc) ==
    IF s # <<>> /\ IsDigit(Head(s))
    THEN DigitRun(Tail(s), acc * 10 + DigitVal(Head(s)))
    ELSE acc

\* parseInt(line, 10): leading white space, an optional sign, then digits
ParseInt(line) ==
    LET t    == TrimLeft(line)
        neg  == t # <<>> /\ Head(t) = "-"
        sgn  == t # <<>> /\ (Head(t) = "-" \/ Head(t) = "+")
        body == IF sgn THEN Tail(t) ELSE t
    IN  IF body = <<>> \/ ~IsDigit(Head(body)) THEN NaN
        ELSE IF neg THEN Num(0 - DigitRun(body, 0)) ELSE Num(DigitRun(body, 0))

RECURSIVE SumLinesUntilInvalid(_)
\* the for-loop leaving at the first line that is not a number
SumLinesUntilInvalid(lines) ==
    IF lines = <<>> THEN 0
    ELSE LET line == Head(lines)
             d    == IF line = <<>> THEN NaN ELSE ParseInt(line)
         IN  IF d.nan THEN 0 ELSE d.val + SumLinesUntilInvalid(Tail(lines))

RECURSIVE SumLines(_)
\* the for-loop of _replayLog: empty lines and NaN lines add nothing
SumLines(lines) ==
    IF lines = <<>> THEN 0
    ELSE LET line == Head(lines)
             d    == IF line = <<>> THEN NaN ELSE ParseInt(line)
         IN  (IF d.nan THEN 0 ELSE d.val) + SumLines(Tail(lines))

\* what _replayLog adds to this.value for a file content
ReplaySum(content) == SumLines(Split(Trim(content)))

\* characters of a log file that an earlier run or a fault left behind
LogAlphabet == {"1", "2", "-", "x", SP, NL}
\* every content of at most MaxLogLen characters
LogContents == UNION {[1..n -> LogAlphabet] : n \in 0..MaxLogLen}

\* ------------------------------------------------------------------ state
VARIABLES
    dbRow,        \* row id = 1 of counter_state in the file at dbPath
    logFile,      \* the file at logPath
    mode,         \* this.mode
    openMember,   \* what this.db.open is, on the object that open() resolved with
    flushEvery,   \* this.flushEvery
    this,         \* the other fields of the ThreeStateCounter instance
    loop,         \* the calls, I/O and timers of the instance still pending
    lastCall,     \* how the last increment/decrement call ended: "ok" or "error"
    ops,          \* increment/decrement calls made so far
    flushCalls,   \* explicit flush() calls made so far
    crashes,      \* process crashes so far
    faults,       \* I/O failures so far
    sess,         \* history of this instance since init() resolved
    prev,         \* sess of the instance that was lost in the last crash
    arith,        \* the value init() resolved with and the deltas applied since
    got,          \* the getValue() calls made so far and what the last returned
    mgr,          \* the CounterManager: its setup() call and its registry
    atCrash       \* what the instance lost in the last crash was doing

vars == <<dbRow, logFile, mode, openMember, flushEvery, this, loop, lastCall,
          ops, flushCalls, crashes, faults, sess, prev, arith, got, mgr,
          atCrash>>

NoRow == [exists |-> FALSE, value |-> 0]
NoFile == [exists |-> FALSE, text |-> <<>>]
EmptyFile == [exists |-> TRUE, text |-> <<>>]
\* the snapshot before the first session: no database yet, or a row left by
\* an earlier clean run
InitRows == {NoRow, [exists |-> TRUE, value |-> 7]}
NoDrain == [active |-> FALSE, toWrite |-> <<>>]
NoSess == [ok |-> FALSE, v0 |-> 0, sum |-> 0]
\* arith is kept only by the specifications that start with arith.on
NoArith == [on |-> FALSE, v0 |-> 0, sum |-> 0, seq |-> <<>>]
NoRead == [calls |-> 0, value |-> 0]
\* no crash so far
\*   ready     the init() of the instance that was lost had resolved
\*   value     this.value of the instance that was lost
\*   upserted  a flush() of it had its db.run resolved and its writeFile not
\*             yet carried out
\*   v0        the value its init() had resolved with     (where arith is kept)
\*   deltas    the deltas applied to it, in order         (where arith is kept)
NoCrash == [ready |-> FALSE, value |-> 0, upserted |-> FALSE,
            v0 |-> 0, deltas |-> <<>>]
\* the manager with an empty registry; the specifications of the bare
\* instance leave it so
\*   pc         "none"      the registry does not hold the name
\*              "init"      setup() awaits counterInstance.init()
\*              "flushing"  setup() awaits counterInstance.flush()
\*              "returned"  the registry holds the name
\*              "closing"   closeAll() awaits the close() of the instance
\*   persisted  the store or the log existed when setup() was called
\*   recovered  counterInstance.value when init() resolved
\*   setups     the ThreeStateCounter instances made so far; the fn made
\*              with the n-th instance is fn number n
\*   registry   the number of the fn in this.registry[name], 0 for none
\*   ret        the number of the fn that setup() returned last
\*   reuses     the setup() calls that found the name in the registry
\*   atClose    the value the store held when closeAll() last resolved
NoMgr == [pc |-> "none", initial |-> 0, jump |-> 0, persisted |-> FALSE,
          recovered |-> 0, setups |-> 0, registry |-> 0, ret |-> 0,
          reuses |-> 0, atClose |-> 0]
\* this.db is the object that open() of the package "sqlite" resolves with; the
\* code reads its member `open` as "the handle is open".  The package is not
\* part of the repository: the member is either the object's open() method,
\* which is truthy whatever the state of the handle ("method"), or a boolean
\* that is true while the handle is open ("flag").
OpenMembers == {"method", "flag"}

\* the fields the constructor sets
constructor ==
    [value |-> 0, pending |-> 0, db |-> "null",
     writeBuffer |-> <<>>, flushTimer |-> "null", isWriting |-> FALSE]

\* nothing scheduled, no call in progress
IdleLoop ==
    [untracked |-> 0, drain |-> NoDrain, flushes |-> <<>>,
     initPc |-> "none", closePc |-> "none", closes |-> 0,
     flushPromise |-> "none", retry |-> FALSE,
     reset |-> [pc |-> "none", val |-> 0], refused |-> FALSE,
     failedFor |-> {}, unread |-> FALSE]

\* a new ThreeStateCounter({dbPath, logPath, flushEvery, mode}) over files
\* that no instance has used yet
Start(rows, modes, choices, members) ==
    /\ dbRow \in rows
    /\ logFile = NoFile
    /\ mode \in modes
    /\ openMember \in members
    /\ flushEvery \in choices
    /\ this = constructor
    /\ loop = IdleLoop
    /\ lastCall = "none"
    /\ ops = 0
    /\ flushCalls = 0
    /\ crashes = 0
    /\ faults = 0
    /\ sess = NoSess
    /\ prev = NoSess
    /\ arith = NoArith
    /\ got = NoRead
    /\ mgr = NoMgr
    /\ atCrash = NoCrash

\* a caller that uses a Ready instance only never reaches the test of
\* this.db.open with a handle that is closed: one reading is enough there
InitSync == Start(InitRows, {"sync"}, FlushEveryChoices, {"method"})
InitAsync == Start({NoRow}, {"async"}, FlushEveryChoices, {"method"})
InitThreshold == Start({NoRow}, Modes, ThresholdChoices, {"method"})
InitSyncMisuse == Start(InitRows, {"sync"}, FlushEveryChoices, OpenMembers)
InitAfterClose == Start({NoRow}, Modes, {10}, OpenMembers)

\* a new instance over a store and a log file of any content
InitRecover ==
    /\ dbRow \in InitRows
    /\ logFile \in {[exists |-> TRUE, text |-> c] : c \in LogContents}
    /\ mode \in Modes
    /\ openMember = "method"
    /\ flushEvery = 10
    /\ this = constructor
    /\ loop = IdleLoop
    /\ lastCall = "none"
    /\ ops = 0
    /\ flushCalls = 0
    /\ crashes = 0
    /\ faults = 0
    /\ sess = NoSess
    /\ prev = NoSess
    /\ arith = NoArith
    /\ got = NoRead
    /\ mgr = NoMgr
    /\ atCrash = NoCrash

\* a new instance whose arithmetic is followed
InitArith ==
    /\ dbRow \in InitRows
    /\ logFile = NoFile
    /\ mode \in Modes
    /\ openMember = "method"
    /\ flushEvery \in {2, 10}
    /\ this = constructor
    /\ loop = IdleLoop
    /\ lastCall = "none"
    /\ ops = 0
    /\ flushCalls = 0
    /\ crashes = 0
    /\ faults = 0
    /\ sess = NoSess
    /\ prev = NoSess
    /\ arith = [on |-> TRUE, v0 |-> 0, sum |-> 0, seq |-> <<>>]
    /\ got = NoRead
    /\ mgr = NoMgr
    /\ atCrash = NoCrash

InitDrain == Start({NoRow}, {"async"}, {2, 10}, {"method"})
InitSession == Start({NoRow}, Modes, {2, 10}, {"method"})
\* the manager before its first setup(name, ...): no file of that name yet
InitManager == Start({NoRow}, Modes, {10}, {"method"})

\* new ThreeStateCounter({..., mode}) is about to be evaluated
InitConstruct ==
    /\ dbRow = NoRow
    /\ logFile = NoFile
    /\ mode \in ModeInputs
    /\ openMember = "method"
    /\ flushEvery = 10
    /\ this = constructor
    /\ loop = [IdleLoop EXCEPT !.initPc = "unbuilt"]
    /\ lastCall = "none"
    /\ ops = 0
    /\ flushCalls = 0
    /\ crashes = 0
    /\ faults = 0
    /\ sess = NoSess
    /\ prev = NoSess
    /\ arith = NoArith
    /\ got = NoRead
    /\ mgr = NoMgr
    /\ atCrash = NoCrash

\* --------------------------------------------------------------- helpers
StoreValue == IF dbRow.exists THEN dbRow.value ELSE 0
LogText == IF logFile.exists THEN logFile.text ELSE <<>>
LogSum == ReplaySum(LogText)
AppendFile(file, content) == [exists |-> TRUE, text |-> file.text \o content]

\* the record is kept back instead of being appended within the call
logOperationDeferred(file, delta) == file

\* _logOperationSync: fs.appendFileSync(this.logPath, `${delta}\n`)
logOperationSync(file, delta) == AppendFile(file, FormatDelta(delta))

RECURSIVE SumSeq(_)
SumSeq(q) == IF q = <<>> THEN 0 ELSE Head(q) + SumSeq(Tail(q))

RemoveAt(q, i) == SubSeq(q, 1, i - 1) \o SubSeq(q, i + 1, Len(q))

\* a continuation that runs before any timer or I/O callback
MicrotaskPending(l) ==
    \/ l.closePc \in {"resume1", "resume2"}
    \/ \E i \in 1..Len(l.flushes) : l.flushes[i].pc = "resume"

\* a state of the instance and of its pending work, as the helpers pass it
St(t, l) == [t |-> t, l |-> l]

\* this.flushTimer is "null", or the handle of a timer that is still
\* scheduled ("live"), or the handle of a timer that has fired ("fired");
\* loop.untracked counts the scheduled timers whose handle was overwritten.

\* this.flushTimer = null
forgetTimer(s) ==
    St([s.t EXCEPT !.flushTimer = "null"],
       [s.l EXCEPT !.untracked = IF s.t.flushTimer = "live" THEN @ + 1 ELSE @])

\* this.flushTimer = setTimeout(() => this._flushWriteBuffer(), 50)
setTimer(s) == St([s.t EXCEPT !.flushTimer = "live"], s.l)

\* _flushWriteBuffer without its test of isWriting
DrainStartsWhileWriting(s) == s.t.writeBuffer # <<>>

\* _flushWriteBuffer, up to its await: does it start an append?
DrainStarts(s) == ~s.t.isWriting /\ s.t.writeBuffer # <<>>

flushWriteBuffer(s) ==
    IF ~DrainStarts(s) THEN s
    ELSE LET s1 == forgetTimer(s)
         IN  St([s1.t EXCEPT !.isWriting = TRUE, !.writeBuffer = <<>>],
                [s1.l EXCEPT !.drain = [active |-> TRUE, toWrite |-> s.t.writeBuffer]])

\* _logOperationAsync that starts the drain itself instead of a timer
logOperationAsyncEager(s, delta) ==
    flushWriteBuffer(St([s.t EXCEPT !.writeBuffer = Append(@, delta)], s.l))

\* _logOperationAsync
logOperationAsync(s, delta) ==
    LET pushed == St([s.t EXCEPT !.writeBuffer = Append(@, delta)], s.l)
    IN  IF s.t.flushTimer = "null" THEN setTimer(pushed) ELSE pushed

\* loop.flushPromise follows the explicit flush() calls of the caller:
\*   "pending"     the first call has not settled, no increment since the call
\*   "ok"          it resolved, no increment since it was called
\*   "again"       a second call, made in state "ok", has not settled
\*   "twice"       the second call resolved, no increment since the first call
\*   "overlapped"  a call has not settled and an increment was made since
\*   "stale"       the last call resolved and an increment was made since
\*   "error"       the last call rejected
FlushOutcome(before, outcome) ==
    IF outcome # "ok" THEN outcome
    ELSE IF before = "overlapped" THEN "stale"
    ELSE IF before = "again" THEN "twice"
    ELSE "ok"

\* a promise of flush() or close() settles
Settle(l, who, outcome) ==
    IF who = "user"
    THEN [l EXCEPT !.flushPromise = FlushOutcome(@, outcome),
                   !.failedFor = @ \ {"user"}]
    ELSE IF who = "reset"
    THEN [l EXCEPT !.flushPromise = FlushOutcome(@, outcome),
                   !.reset.pc = outcome,
                   !.failedFor = @ \ {"reset"}]
    ELSE IF who = "close"
         THEN [l EXCEPT !.closePc = IF outcome = "ok" THEN "resume2" ELSE "failed"]
         ELSE l

\* the handle accepts a statement: it is open and db.close() was not called
DbUsable(s) == s.t.db = "open" /\ s.l.closePc # "dbclosing"

\* this.db.run("UPDATE ...", this.value) is called by the flush task rec;
\* on a handle that is closed or closing the statement is refused
\* (loop.refused) and flush() rejects
issueDbRun(s, who) ==
    IF DbUsable(s)
    THEN St(s.t, [s.l EXCEPT !.flushes =
                      Append(@, [pc |-> "dbrun", who |-> who, val |-> s.t.value])])
    ELSE St(s.t, Settle([s.l EXCEPT !.refused = TRUE], who, "error"))

\* if (!this.db || !this.db.open) return  does not return
FlushProceeds(s) ==
    /\ s.t.db # "null"
    /\ (openMember = "method" \/ s.t.db = "open")

\* flush(), up to its first await
flush(s, who) ==
    IF ~FlushProceeds(s) THEN St(s.t, Settle(s.l, who, "ok"))
    ELSE IF mode = "async"
         THEN LET s1 == flushWriteBuffer(s)
                  pc == IF DrainStarts(s) THEN "drainwait" ELSE "resume"
              IN  St(s1.t, [s1.l EXCEPT !.flushes =
                               Append(@, [pc |-> pc, who |-> who, val |-> 0])])
         ELSE issueDbRun(s, who)

\* the test with > in place of >=
ThresholdExceeded(t) == t.pending > flushEvery

\* the test of increment() that starts a flush
ThresholdReached(t) == t.pending >= flushEvery

\* increment() keeping the value at 0 or above
applyDeltaFloored(s, delta) ==
    LET v  == IF s.t.value + delta < 0 THEN 0 ELSE s.t.value + delta
        s1 == St([s.t EXCEPT !.value = v, !.pending = @ + 1], s.l)
    IN  IF ThresholdReached(s1.t) THEN flush(s1, "auto") ELSE s1

\* increment(), after the delta was logged
applyDelta(s, delta) ==
    LET s1 == St([s.t EXCEPT !.value = @ + delta, !.pending = @ + 1], s.l)
    IN  IF ThresholdReached(s1.t) THEN flush(s1, "auto") ELSE s1

\* increment(delta) as a whole: the new instance state
increment(s, delta) ==
    IF mode = "sync" THEN applyDelta(s, delta)
    ELSE applyDelta(logOperationAsync(s, delta), delta)

\* history kept for the replay properties
SessAtReady(file, l, t) ==
    IF mode = "sync" /\ file.text = <<>> /\ l.flushes = <<>> /\ l.closePc = "none"
    THEN [ok |-> TRUE, v0 |-> StoreValue, sum |-> 0]
    ELSE NoSess

\* init() resolves with value v
ArithAtReady(v) ==
    IF arith.on THEN [on |-> TRUE, v0 |-> v, sum |-> 0, seq |-> <<>>] ELSE arith

\* the caller asks for the value to change by delta
ArithApplied(delta) ==
    IF arith.on THEN [arith EXCEPT !.sum = @ + delta, !.seq = Append(@, delta)]
    ELSE arith

\* common tail of an action that runs instance code: s is the new state
Becomes(s) == this' = s.t /\ loop' = s.l

Bookkeeping ==
    UNCHANGED <<mode, openMember, flushEvery, crashes, faults, prev, got, mgr,
                atCrash>>

\* the call in progress is not the scenario "deltas only" any more
Touched == NoSess

\* ----------------------------------------------------------- constructor
\* the constructor without its test of mode
ConstructUnchecked ==
    /\ loop.initPc = "unbuilt"
    /\ loop' = [loop EXCEPT !.initPc = "none"]
    /\ UNCHANGED <<dbRow, logFile, this, lastCall, ops, flushCalls, sess, arith>>
    /\ Bookkeeping

\* the constructor runs: it throws for a mode that is neither "sync" nor
\* "async" ("rejected": the caller gets no instance), else the instance exists
Construct ==
    /\ loop.initPc = "unbuilt"
    /\ loop' = [loop EXCEPT !.initPc =
                   IF mode # "sync" /\ mode # "async" THEN "rejected" ELSE "none"]
    /\ UNCHANGED <<dbRow, logFile, this, lastCall, ops, flushCalls, sess, arith>>
    /\ Bookkeeping

\* ---------------------------------------------------------------- init()
\* init() is called: _initDB() calls open()
CallInit ==
    /\ loop.initPc = "none"
    /\ loop' = [loop EXCEPT !.initPc = "opening"]
    /\ UNCHANGED <<dbRow, logFile, this, lastCall, ops, flushCalls, sess, arith>>
    /\ Bookkeeping

\* _initDB: open() resolved, CREATE TABLE IF NOT EXISTS, INSERT OR IGNORE
InitOpenDb ==
    /\ loop.initPc = "opening"
    /\ ~MicrotaskPending(loop)
    /\ this' = [this EXCEPT !.db = "open"]
    /\ dbRow' = IF dbRow.exists THEN dbRow ELSE [exists |-> TRUE, value |-> 0]
    /\ loop' = [loop EXCEPT !.initPc = "loading"]
    /\ UNCHANGED <<logFile, lastCall, ops, flushCalls, sess, arith>>
    /\ Bookkeeping

\* _loadState, then _replayLog up to fs.existsSync / readFile
InitLoadState ==
    /\ loop.initPc = "loading"
    /\ ~MicrotaskPending(loop)
    /\ this' = [this EXCEPT !.value = StoreValue]
    /\ loop' = [loop EXCEPT !.initPc = IF logFile.exists THEN "reading" ELSE "done"]
    /\ sess' = IF logFile.exists THEN sess ELSE SessAtReady(logFile, loop, this)
    /\ arith' = IF logFile.exists THEN arith ELSE ArithAtReady(this'.value)
    /\ UNCHANGED <<dbRow, logFile, lastCall, ops, flushCalls>>
    /\ Bookkeeping

\* _replayLog: readFile resolved, the lines are added, writeFile is called
InitReplayRead ==
    /\ loop.initPc = "reading"
    /\ ~MicrotaskPending(loop)
    /\ this' = [this EXCEPT !.value = @ + ReplaySum(LogText)]
    /\ loop' = [loop EXCEPT !.initPc = "clearing"]
    /\ UNCHANGED <<dbRow, logFile, lastCall, ops, flushCalls, sess, arith>>
    /\ Bookkeeping

\* _replayLog: writeFile(logPath, "") resolved, init() resolves
InitReplayClear ==
    /\ loop.initPc = "clearing"
    /\ ~MicrotaskPending(loop)
    /\ logFile' = EmptyFile
    /\ loop' = [loop EXCEPT !.initPc = "done"]
    /\ sess' = SessAtReady(EmptyFile, loop, this)
    /\ arith' = ArithAtReady(this.value)
    /\ UNCHANGED <<dbRow, this, lastCall, ops, flushCalls>>
    /\ Bookkeeping

\* _replayLog: readFile rejects; the catch logs the error and init() resolves
InitReplayReadFails ==
    /\ loop.initPc = "reading"
    /\ ~MicrotaskPending(loop)
    /\ faults < MaxFaults
    /\ loop' = [loop EXCEPT !.initPc = "done", !.unread = TRUE]
    /\ sess' = SessAtReady(logFile, loop, this)
    /\ arith' = ArithAtReady(this.value)
    /\ faults' = faults + 1
    /\ UNCHANGED <<dbRow, logFile, this, lastCall, ops, flushCalls>>
    /\ UNCHANGED <<mode, openMember, flushEvery, crashes, prev, got, mgr,
                   atCrash>>

\* _replayLog: writeFile(logPath, "") rejects; the catch logs the error and
\* init() resolves
InitReplayClearFails ==
    /\ loop.initPc = "clearing"
    /\ ~MicrotaskPending(loop)
    /\ faults < MaxFaults
    /\ loop' = [loop EXCEPT !.initPc = "done"]
    /\ sess' = SessAtReady(logFile, loop, this)
    /\ arith' = ArithAtReady(this.value)
    /\ faults' = faults + 1
    /\ UNCHANGED <<dbRow, logFile, this, lastCall, ops, flushCalls>>
    /\ UNCHANGED <<mode, openMember, flushEvery, crashes, prev, got, mgr,
                   atCrash>>

\* ----------------------------------------------- increment() / decrement()
\* the caller awaits init(): it makes no other call while init() is running
InitRunning == loop.initPc \in {"opening", "loading", "reading", "clearing"}

\* init() has resolved and close() was not called: the instance is Ready
Ready == loop.initPc = "done" /\ loop.closePc = "none"

\* an increment is made: what it means for the explicit flush() calls
Overlap(l) ==
    IF l.flushPromise \in {"pending", "again"}
    THEN [l EXCEPT !.flushPromise = "overlapped"]
    ELSE IF l.flushPromise \in {"ok", "twice"}
         THEN [l EXCEPT !.flushPromise = "stale"]
         ELSE l

Mutate(op, delta) ==
    /\ ops < MaxOps
    /\ Becomes(increment(St(this, Overlap(loop)), delta))
    /\ logFile' = IF mode = "sync" THEN logOperationSync(logFile, delta)
                  ELSE logFile
    /\ lastCall' = "ok"
    /\ ops' = ops + 1
    /\ sess' = IF sess.ok /\ loop'.flushes = <<>>
               THEN [sess EXCEPT !.sum = @ + delta]
               ELSE Touched
    /\ UNCHANGED <<dbRow, flushCalls>>
    /\ Bookkeeping

Increment ==
    /\ Ready
    /\ \E delta \in IncDeltas :
           Mutate("increment", delta) /\ arith' = ArithApplied(delta)

\* decrement(delta) is increment(-delta)
Decrement ==
    /\ Ready
    /\ \E delta \in DecDeltas :
           Mutate("decrement", 0 - delta) /\ arith' = ArithApplied(0 - delta)

\* increment() on an instance that is not Ready
IncrementNotReady ==
    /\ ~Ready
    /\ ~InitRunning
    /\ \E delta \in IncDeltas :
           Mutate("increment", delta) /\ arith' = ArithApplied(delta)

\* ------------------------------------------------------------- getValue()
\* getValue() answering with the value the store holds
GetValueFromStore ==
    /\ got.calls < MaxReads
    /\ got' = [calls |-> got.calls + 1, value |-> StoreValue]
    /\ UNCHANGED <<dbRow, logFile, mode, openMember, flushEvery, this, loop,
                   lastCall, ops, flushCalls, crashes, faults, sess, prev, arith,
                   mgr, atCrash>>

\* getValue(): return this.value
GetValue ==
    /\ got.calls < MaxReads
    /\ got' = [calls |-> got.calls + 1, value |-> this.value]
    /\ UNCHANGED <<dbRow, logFile, mode, openMember, flushEvery, this, loop,
                   lastCall, ops, flushCalls, crashes, faults, sess, prev, arith,
                   mgr, atCrash>>

\* ---------------------------------------------------------------- flush()
\* the caller calls flush()
CallFlush ==
    /\ flushCalls < MaxFlushCalls
    /\ Ready
    /\ loop.flushPromise \notin {"pending", "again", "overlapped"}
    /\ LET s0 == St(this, [loop EXCEPT !.flushPromise = "pending",
                                        !.retry = faults > 0])
       IN  Becomes(flush(s0, "user"))
    /\ flushCalls' = flushCalls + 1
    /\ sess' = Touched
    /\ UNCHANGED <<dbRow, logFile, lastCall, ops, arith>>
    /\ Bookkeeping

\* the caller calls flush() a second time, right after the first resolved
CallFlushAgain ==
    /\ Ready
    /\ loop.flushPromise = "ok"
    /\ Becomes(flush(St(this, [loop EXCEPT !.flushPromise = "again"]), "user"))
    /\ sess' = Touched
    /\ UNCHANGED <<dbRow, logFile, lastCall, ops, flushCalls, arith>>
    /\ Bookkeeping

\* flush() continues after await this._flushWriteBuffer(): db.run is called
FlushResume ==
    \E i \in 1..Len(loop.flushes) :
        /\ loop.flushes[i].pc = "resume"
        /\ LET who == loop.flushes[i].who
               s0  == St(this, [loop EXCEPT !.flushes = RemoveAt(@, i)])
           IN  Becomes(issueDbRun(s0, who))
        /\ UNCHANGED <<dbRow, logFile, lastCall, ops, flushCalls, sess, arith>>
        /\ Bookkeeping

\* the statements of one connection run in the order they were issued
DbHead(l) == CHOOSE i \in 1..Len(l.flushes) :
                 /\ l.flushes[i].pc = "dbrun"
                 /\ \A j \in 1..(i - 1) : l.flushes[j].pc # "dbrun"

\* UPDATE counter_state SET value = ? WHERE id = 1
Upsert(row, val) == IF row.exists THEN [row EXCEPT !.value = val] ELSE row

\* db.run resolved: flush() calls writeFile(logPath, "")
FlushDbRunDone ==
    /\ \E i \in 1..Len(loop.flushes) : loop.flushes[i].pc = "dbrun"
    /\ ~MicrotaskPending(loop)
    /\ LET i == DbHead(loop)
       IN  /\ dbRow' = Upsert(dbRow, loop.flushes[i].val)
           /\ loop' = [loop EXCEPT !.flushes[i].pc = "truncating"]
    /\ UNCHANGED <<logFile, this, lastCall, ops, flushCalls, sess, arith>>
    /\ Bookkeeping

\* the file system truncates the log for writeFile(logPath, "")
FlushTruncateIO ==
    \E i \in 1..Len(loop.flushes) :
        /\ loop.flushes[i].pc = "truncating"
        /\ logFile' = EmptyFile
        /\ loop' = [loop EXCEPT !.flushes[i].pc = "truncated"]
        /\ UNCHANGED <<dbRow, this, lastCall, ops, flushCalls, sess, arith>>
        /\ Bookkeeping

\* writeFile resolved: this.pending = 0, flush() resolves
FlushTruncateDone ==
    \E i \in 1..Len(loop.flushes) :
        /\ loop.flushes[i].pc = "truncated"
        /\ ~MicrotaskPending(loop)
        /\ this' = [this EXCEPT !.pending = 0]
        /\ loop' = Settle([loop EXCEPT !.flushes = RemoveAt(@, i)],
                          loop.flushes[i].who, "ok")
        /\ UNCHANGED <<dbRow, logFile, lastCall, ops, flushCalls, sess, arith>>
        /\ Bookkeeping

\* ------------------------------------------------ the write buffer drain
\* the 50 ms timer whose handle is in this.flushTimer fires
TimerFire ==
    /\ this.flushTimer = "live"
    /\ ~MicrotaskPending(loop)
    /\ Becomes(flushWriteBuffer(St([this EXCEPT !.flushTimer = "fired"], loop)))
    /\ UNCHANGED <<dbRow, logFile, lastCall, ops, flushCalls, sess, arith>>
    /\ Bookkeeping

\* a 50 ms timer whose handle was overwritten fires
UntrackedTimerFire ==
    /\ loop.untracked > 0
    /\ ~MicrotaskPending(loop)
    /\ Becomes(flushWriteBuffer(St(this, [loop EXCEPT !.untracked = @ - 1])))
    /\ UNCHANGED <<dbRow, logFile, lastCall, ops, flushCalls, sess, arith>>
    /\ Bookkeeping

\* the finally block of _flushWriteBuffer, then whoever awaited it goes on
drainFinally(s) ==
    LET t1 == [s.t EXCEPT !.isWriting = FALSE]
        resched == t1.writeBuffer # <<>> /\ t1.flushTimer = "null"
        t2 == IF resched THEN [t1 EXCEPT !.flushTimer = "live"] ELSE t1
        woken == [i \in 1..Len(s.l.flushes) |->
                     IF s.l.flushes[i].pc = "drainwait"
                     THEN [s.l.flushes[i] EXCEPT !.pc = "resume"]
                     ELSE s.l.flushes[i]]
    IN  St(t2, [s.l EXCEPT !.drain = NoDrain,
                           !.flushes = woken,
                           !.closePc = IF @ = "drainwait" THEN "resume1" ELSE @])

\* appendFile resolved
DrainDone ==
    /\ loop.drain.active
    /\ ~MicrotaskPending(loop)
    /\ logFile' = AppendFile(logFile, JoinBatch(loop.drain.toWrite))
    /\ Becomes(drainFinally(St(this, loop)))
    /\ UNCHANGED <<dbRow, lastCall, ops, flushCalls, sess, arith>>
    /\ Bookkeeping

\* the calls that await the drain in flight: the flush() tasks that started
\* it, named by their caller, and close(); loop.failedFor keeps the callers
\* whose awaited drain had its append rejected, until their promise settles
Awaiting(l) ==
    {l.flushes[i].who : i \in {j \in 1..Len(l.flushes) :
                                 l.flushes[j].pc = "drainwait"}}
        \cup (IF l.closePc = "drainwait" THEN {"close"} ELSE {})

\* appendFile rejected, with the batch put back behind the write buffer
DrainFailsPushesBack ==
    /\ loop.drain.active
    /\ ~MicrotaskPending(loop)
    /\ faults < MaxFaults
    /\ Becomes(drainFinally(St([this EXCEPT !.writeBuffer =
                                    @ \o loop.drain.toWrite],
                               [loop EXCEPT !.failedFor = @ \cup Awaiting(loop)])))
    /\ faults' = faults + 1
    /\ UNCHANGED <<dbRow, logFile, lastCall, ops, flushCalls, sess, arith>>
    /\ UNCHANGED <<mode, openMember, flushEvery, crashes, prev, got, mgr,
                   atCrash>>

\* appendFile rejected: the catch block puts the batch back in front of the
\* write buffer, then the finally block runs
DrainFails ==
    /\ loop.drain.active
    /\ ~MicrotaskPending(loop)
    /\ faults < MaxFaults
    /\ Becomes(drainFinally(St([this EXCEPT !.writeBuffer =
                                    loop.drain.toWrite \o @],
                               [loop EXCEPT !.failedFor = @ \cup Awaiting(loop)])))
    /\ faults' = faults + 1
    /\ UNCHANGED <<dbRow, logFile, lastCall, ops, flushCalls, sess, arith>>
    /\ UNCHANGED <<mode, openMember, flushEvery, crashes, prev, got, mgr,
                   atCrash>>

\* ---------------------------------------------------------------- close()
\* close() up to its first await
closeStart(s) ==
    LET s1 == IF s.t.flushTimer # "null"
              THEN St([s.t EXCEPT !.flushTimer = "null"], s.l)
              ELSE s
    IN  IF mode = "async"
        THEN LET s2 == flushWriteBuffer(s1)
             IN  St(s2.t, [s2.l EXCEPT !.closePc =
                              IF DrainStarts(s1) THEN "drainwait" ELSE "resume1"])
        ELSE flush(St(s1.t, [s1.l EXCEPT !.closePc = "flushwait"]), "close")

CallClose ==
    /\ Ready
    /\ Becomes(closeStart(St(this, [loop EXCEPT !.closes = 1])))
    /\ sess' = Touched
    /\ UNCHANGED <<dbRow, logFile, lastCall, ops, flushCalls, arith>>
    /\ Bookkeeping

\* close() goes on to db.close() without the final flush()
CloseSkipsFlush ==
    /\ loop.closePc = "resume1"
    /\ loop' = [loop EXCEPT !.closePc = "resume2"]
    /\ UNCHANGED <<dbRow, logFile, this, lastCall, ops, flushCalls, sess, arith>>
    /\ Bookkeeping

\* close() continues after await this._flushWriteBuffer(): flush() is called
CloseCallsFlush ==
    /\ loop.closePc = "resume1"
    /\ Becomes(flush(St(this, [loop EXCEPT !.closePc = "flushwait"]), "close"))
    /\ UNCHANGED <<dbRow, logFile, lastCall, ops, flushCalls, sess, arith>>
    /\ Bookkeeping

\* close() continues after await this.flush(): this.db.close() is called
CloseCallsDbClose ==
    /\ loop.closePc = "resume2"
    /\ loop' = [loop EXCEPT !.closePc =
                   IF this.db = "open" THEN "dbclosing" ELSE "failed"]
    /\ UNCHANGED <<dbRow, logFile, this, lastCall, ops, flushCalls, sess, arith>>
    /\ Bookkeeping

\* db.close() resolved, after the statements issued before it
DbCloseDone ==
    /\ loop.closePc = "dbclosing"
    /\ ~MicrotaskPending(loop)
    /\ \A i \in 1..Len(loop.flushes) : loop.flushes[i].pc # "dbrun"
    /\ this' = [this EXCEPT !.db = "closed"]
    /\ loop' = [loop EXCEPT !.closePc = "done"]
    /\ UNCHANGED <<dbRow, logFile, lastCall, ops, flushCalls, sess, arith>>
    /\ Bookkeeping

\* ------------------------------------------------- calls after close()
\* close() has resolved: the handle is released
Closed == loop.closePc = "done"

\* the caller calls flush() on the closed instance
FlushAfterClose ==
    /\ Closed
    /\ flushCalls < MaxFlushCalls
    /\ loop.flushPromise \notin {"pending", "again", "overlapped"}
    /\ LET s0 == St(this, [loop EXCEPT !.flushPromise = "pending",
                                        !.retry = faults > 0])
       IN  Becomes(flush(s0, "user"))
    /\ flushCalls' = flushCalls + 1
    /\ UNCHANGED <<dbRow, logFile, lastCall, ops, sess, arith>>
    /\ Bookkeeping

\* the caller calls close() a second time
CloseAgain ==
    /\ Closed
    /\ loop.closes = 1
    /\ Becomes(closeStart(St(this, [loop EXCEPT !.closes = 2])))
    /\ UNCHANGED <<dbRow, logFile, lastCall, ops, flushCalls, sess, arith>>
    /\ Bookkeeping

\* ----------------------------------------------------------------- crash
\* a flush() is between its db.run and the truncation of the log
Upserted(l) == \E i \in 1..Len(l.flushes) : l.flushes[i].pc = "truncating"

\* the process dies; a new instance is constructed over the same files
Crash ==
    /\ crashes < MaxCrashes
    /\ loop.initPc # "none"
    /\ this' = constructor
    /\ loop' = IdleLoop
    /\ lastCall' = "none"
    /\ crashes' = crashes + 1
    /\ prev' = sess
    /\ sess' = NoSess
    /\ arith' = [arith EXCEPT !.v0 = 0, !.sum = 0, !.seq = <<>>]
    /\ atCrash' = [ready |-> loop.initPc = "done", value |-> this.value,
                   upserted |-> Upserted(loop),
                   v0 |-> arith.v0, deltas |-> arith.seq]
    /\ UNCHANGED <<dbRow, logFile, mode, openMember, flushEvery, faults, ops,
                   flushCalls, got, mgr>>

\* ------------------------------------------------------- CounterManager
\* nothing of an earlier instance is still scheduled
InstanceQuiet ==
    /\ loop.flushes = <<>>
    /\ ~loop.drain.active
    /\ loop.untracked = 0
    /\ this.flushTimer # "live"

\* setup(name, initial, jump, flushEvery, mode) with the name not in the
\* registry: new ThreeStateCounter(...), then init() is called
Setup ==
    /\ mgr.pc = "none"
    /\ mgr.setups < MaxSetups
    /\ loop.initPc = "none" \/ loop.closePc \in {"done", "failed"}
    /\ InstanceQuiet
    /\ \E initial \in SetupInitials, jump \in Jumps :
           mgr' = [mgr EXCEPT !.pc = "init", !.initial = initial,
                              !.jump = jump,
                              !.persisted = dbRow.exists \/ logFile.exists,
                              !.recovered = 0, !.setups = @ + 1]
    /\ this' = constructor
    /\ loop' = [IdleLoop EXCEPT !.initPc = "opening"]
    /\ lastCall' = "none"
    /\ sess' = NoSess
    /\ UNCHANGED <<dbRow, logFile, mode, openMember, flushEvery, ops, flushCalls,
                   crashes, faults, prev, arith, got, atCrash>>

\* setup() making a new instance although the registry holds the name
SetupRegisteredAnew ==
    /\ mgr.registry # 0
    /\ mgr.reuses < MaxReuses
    /\ \E initial \in SetupInitials, jump \in Jumps :
           mgr' = [mgr EXCEPT !.reuses = @ + 1, !.ret = mgr.setups + 1,
                              !.setups = @ + 1, !.registry = mgr.setups + 1]
    /\ this' = constructor
    /\ UNCHANGED <<dbRow, logFile, mode, openMember, flushEvery, loop, lastCall,
                   ops, flushCalls, crashes, faults, sess, prev, arith, got,
                   atCrash>>

\* setup(name, initial, jump, flushEvery, mode) with the name in the
\* registry: if (this.registry[name]) return this.registry[name]
SetupRegistered ==
    /\ mgr.registry # 0
    /\ mgr.reuses < MaxReuses
    /\ \E initial \in SetupInitials, jump \in Jumps :
           mgr' = [mgr EXCEPT !.reuses = @ + 1, !.ret = mgr.registry]
    /\ UNCHANGED <<dbRow, logFile, mode, openMember, flushEvery, this, loop,
                   lastCall, ops, flushCalls, crashes, faults, sess, prev, arith,
                   got, atCrash>>

\* setup() after await counterInstance.init():
\* if (counterInstance.value === 0 && initial !== 0) the value is set and
\* flush() is called, else setup() returns fn
SetupAfterInit ==
    /\ mgr.pc = "init"
    /\ loop.initPc = "done"
    /\ IF this.value = 0 /\ mgr.initial # 0
       THEN /\ Becomes(flush(St([this EXCEPT !.value = mgr.initial],
                                [loop EXCEPT !.flushPromise = "pending"]),
                             "user"))
            /\ mgr' = [mgr EXCEPT !.pc = "flushing", !.recovered = this.value]
       ELSE /\ UNCHANGED <<this, loop>>
            /\ mgr' = [mgr EXCEPT !.pc = "returned", !.recovered = this.value,
                                  !.registry = mgr.setups, !.ret = mgr.setups]
    /\ sess' = Touched
    /\ UNCHANGED <<dbRow, logFile, mode, openMember, flushEvery, lastCall, ops,
                   flushCalls, crashes, faults, prev, arith, got, atCrash>>

\* setup() after await counterInstance.flush(): fn is registered and returned
SetupFlushed ==
    /\ mgr.pc = "flushing"
    /\ loop.flushPromise = "ok"
    /\ mgr' = [mgr EXCEPT !.pc = "returned", !.registry = mgr.setups,
                          !.ret = mgr.setups]
    /\ UNCHANGED <<dbRow, logFile, mode, openMember, flushEvery, this, loop,
                   lastCall, ops, flushCalls, crashes, faults, sess, prev, arith,
                   got, atCrash>>

\* fn(): counterInstance.increment(jump)
ManagerFn ==
    /\ mgr.pc = "returned"
    /\ Ready
    /\ Mutate("increment", mgr.jump)
    /\ arith' = arith

\* fn.flush()
ManagerFlush == mgr.pc = "returned" /\ CallFlush

\* fn.reset(val): counterInstance.value = val, then flush() if the db is open
ManagerReset ==
    /\ mgr.pc = "returned"
    /\ Ready
    /\ flushCalls < MaxFlushCalls
    /\ loop.flushPromise \notin {"pending", "again", "overlapped"}
    /\ \E val \in ResetValues :
           Becomes(flush(St([this EXCEPT !.value = val],
                            [loop EXCEPT !.flushPromise = "pending",
                                         !.reset = [pc |-> "pending",
                                                    val |-> val]]),
                         "reset"))
    /\ flushCalls' = flushCalls + 1
    /\ sess' = Touched
    /\ UNCHANGED <<dbRow, logFile, lastCall, ops, arith>>
    /\ Bookkeeping

\* closeAll(): instance.close() for the instance whose db is open
ManagerCloseAll ==
    /\ mgr.pc = "returned"
    /\ Ready
    /\ Becomes(closeStart(St(this, [loop EXCEPT !.closes = 1])))
    /\ mgr' = [mgr EXCEPT !.pc = "closing"]
    /\ sess' = Touched
    /\ UNCHANGED <<dbRow, logFile, mode, openMember, flushEvery, lastCall, ops,
                   flushCalls, crashes, faults, prev, arith, got, atCrash>>

\* closeAll() after await Promise.all(closePromises): the registries are
\* cleared, whether close() resolved or its error was caught
CloseAllDone ==
    /\ mgr.pc = "closing"
    /\ loop.closePc \in {"done", "failed"}
    /\ mgr' = [mgr EXCEPT !.pc = "none", !.registry = 0,
                          !.atClose = StoreValue]
    /\ UNCHANGED <<dbRow, logFile, mode, openMember, flushEvery, this, loop,
                   lastCall, ops, flushCalls, crashes, faults, sess, prev, arith,
                   got, atCrash>>

\* ----------------------------------------------------------- I/O failures
\* increment() with this.value += delta ahead of the append that throws
IncrementAppliesThenFails ==
    /\ mode = "sync"
    /\ Ready
    /\ ops < MaxOps
    /\ faults < MaxFaults
    /\ \E delta \in IncDeltas : this' = [this EXCEPT !.value = @ + delta]
    /\ lastCall' = "error"
    /\ ops' = ops + 1
    /\ faults' = faults + 1
    /\ UNCHANGED <<dbRow, logFile, loop, flushCalls, sess, arith>>
    /\ UNCHANGED <<mode, openMember, flushEvery, crashes, prev, got, mgr,
                   atCrash>>

\* _logOperationSync: appendFileSync throws, increment() rethrows
IncrementAppendFails ==
    /\ mode = "sync"
    /\ Ready
    /\ ops < MaxOps
    /\ faults < MaxFaults
    /\ lastCall' = "error"
    /\ ops' = ops + 1
    /\ faults' = faults + 1
    /\ UNCHANGED <<dbRow, logFile, this, loop, flushCalls, sess, arith>>
    /\ UNCHANGED <<mode, openMember, flushEvery, crashes, prev, got, mgr,
                   atCrash>>

\* flush() going on to the truncation after db.run rejected
FlushDbRunFailsIgnored ==
    /\ \E i \in 1..Len(loop.flushes) : loop.flushes[i].pc = "dbrun"
    /\ ~MicrotaskPending(loop)
    /\ faults < MaxFaults
    /\ LET i == DbHead(loop)
       IN  loop' = [loop EXCEPT !.flushes[i].pc = "truncating"]
    /\ faults' = faults + 1
    /\ UNCHANGED <<dbRow, logFile, this, lastCall, ops, flushCalls, sess, arith>>
    /\ UNCHANGED <<mode, openMember, flushEvery, crashes, prev, got, mgr,
                   atCrash>>

\* flush(): db.run rejects, the catch block rethrows
FlushDbRunFails ==
    /\ \E i \in 1..Len(loop.flushes) : loop.flushes[i].pc = "dbrun"
    /\ ~MicrotaskPending(loop)
    /\ faults < MaxFaults
    /\ LET i == DbHead(loop)
       IN  loop' = Settle([loop EXCEPT !.flushes = RemoveAt(@, i)],
                          loop.flushes[i].who, "error")
    /\ faults' = faults + 1
    /\ UNCHANGED <<dbRow, logFile, this, lastCall, ops, flushCalls, sess, arith>>
    /\ UNCHANGED <<mode, openMember, flushEvery, crashes, prev, got, mgr,
                   atCrash>>

\* ------------------------------------------------------- specifications
\* what happens in both modes when no I/O fails and the caller uses a
\* Ready instance only
NextCommon ==
    \/ CallInit
    \/ InitOpenDb
    \/ InitLoadState
    \/ InitReplayRead
    \/ InitReplayClear
    \/ Increment
    \/ Decrement
    \/ CallFlush
    \/ FlushDbRunDone
    \/ FlushTruncateIO
    \/ FlushTruncateDone
    \/ CallClose
    \/ CloseCallsDbClose
    \/ DbCloseDone
    \/ Crash

\* what only an async instance does
NextBuffered ==
    \/ FlushResume
    \/ TimerFire
    \/ UntrackedTimerFire
    \/ DrainDone
    \/ CloseCallsFlush

\* one session of an instance in either mode: no crash, no log to replay
NextSession ==
    \/ CallInit
    \/ InitOpenDb
    \/ InitLoadState
    \/ Increment
    \/ Decrement
    \/ CallFlush
    \/ FlushDbRunDone
    \/ FlushTruncateIO
    \/ FlushTruncateDone
    \/ CallClose
    \/ CloseCallsDbClose
    \/ DbCloseDone
    \/ NextBuffered

\* a session whose caller goes on calling flush() and close() after close()
NextAfterClose == NextSession \/ FlushAfterClose \/ CloseAgain

\* construction followed by a session
NextConstruct == Construct \/ NextSession

\* a session whose caller calls flush() twice in a row
NextFlushTwice == NextSession \/ CallFlushAgain

\* init() alone
NextRecover ==
    \/ CallInit
    \/ InitOpenDb
    \/ InitLoadState
    \/ InitReplayRead
    \/ InitReplayClear

\* init() and a crash, after which init() runs again
NextRecoverAgain == NextRecover \/ Crash

\* init() whose reading or clearing of the log can fail, then flush(), and a
\* crash after which init() runs again
NextReplayFault ==
    \/ NextRecoverAgain
    \/ InitReplayReadFails
    \/ InitReplayClearFails
    \/ CallFlush
    \/ FlushDbRunDone
    \/ FlushTruncateIO
    \/ FlushTruncateDone

\* an async session whose caller only increments and decrements
NextDrain ==
    \/ CallInit
    \/ InitOpenDb
    \/ InitLoadState
    \/ Increment
    \/ Decrement
    \/ FlushResume
    \/ FlushDbRunDone
    \/ FlushTruncateIO
    \/ FlushTruncateDone
    \/ TimerFire
    \/ UntrackedTimerFire
    \/ DrainDone

\* the same session with appends of the drain that can fail
NextDrainFault == NextDrain \/ DrainFails

\* a session in either mode with appends of the drain that can fail
NextOrder == NextSession \/ DrainFails

\* a session in either mode with store writes that can fail
NextFlushSteps == NextSession \/ FlushDbRunFails

\* a session whose caller also reads the value
NextRead == NextSession \/ GetValue

\* a caller that reaches the counter through the manager only
NextManager ==
    \/ Setup
    \/ InitOpenDb
    \/ InitLoadState
    \/ InitReplayRead
    \/ InitReplayClear
    \/ SetupAfterInit
    \/ SetupFlushed
    \/ ManagerFn
    \/ ManagerFlush
    \/ ManagerReset
    \/ ManagerCloseAll
    \/ CloseAllDone
    \/ FlushDbRunDone
    \/ FlushTruncateIO
    \/ FlushTruncateDone
    \/ CloseCallsDbClose
    \/ DbCloseDone
    \/ NextBuffered

\* the manager with a caller that sets a registered name up again
NextReuse == NextManager \/ SetupRegistered

NextSync == NextCommon
NextAsync == NextCommon \/ NextBuffered
NextSyncFault == NextSync \/ IncrementAppendFails
NextAsyncFault == NextAsync \/ FlushDbRunFails
NextSyncMisuse == NextSync \/ IncrementNotReady

\* the caller of the threshold scenario: it increments until the threshold
\* is reached and then makes no further call until the flush is over
IncrementBelowThreshold ==
    /\ this.pending < flushEvery
    /\ (Increment \/ Decrement)

NextThreshold ==
    \/ CallInit
    \/ InitOpenDb
    \/ InitLoadState
    \/ IncrementBelowThreshold
    \/ FlushDbRunDone
    \/ FlushTruncateIO
    \/ FlushTruncateDone
    \/ FlushResume
    \/ TimerFire
    \/ UntrackedTimerFire
    \/ DrainDone

\* I/O completions, timers and continuations are run by the event loop
LoopFairness ==
    /\ WF_vars(InitOpenDb)
    /\ WF_vars(InitLoadState)
    /\ WF_vars(FlushResume)
    /\ WF_vars(FlushDbRunDone)
    /\ WF_vars(FlushTruncateIO)
    /\ WF_vars(FlushTruncateDone)
    /\ WF_vars(TimerFire)
    /\ WF_vars(UntrackedTimerFire)
    /\ WF_vars(DrainDone)

SpecSync == InitSync /\ [][NextSync]_vars
SpecAsync == InitAsync /\ [][NextAsync]_vars
SpecSyncFault == InitSync /\ [][NextSyncFault]_vars
SpecAsyncFault == InitAsync /\ [][NextAsyncFault]_vars
SpecSyncMisuse == InitSyncMisuse /\ [][NextSyncMisuse]_vars
SpecAfterClose == InitAfterClose /\ [][NextAfterClose]_vars
SpecConstruct == InitConstruct /\ [][NextConstruct]_vars
SpecFlushTwice == InitSession /\ [][NextFlushTwice]_vars
SpecRecover == InitRecover /\ [][NextRecover]_vars
SpecRecoverAgain == InitRecover /\ [][NextRecoverAgain]_vars
SpecReplayFault == InitRecover /\ [][NextReplayFault]_vars
SpecArith == InitArith /\ [][NextAsync]_vars
SpecDrain == InitDrain /\ [][NextDrain]_vars
SpecDrainFault == InitDrain /\ [][NextDrainFault]_vars
SpecOrder == InitArith /\ [][NextOrder]_vars
SpecFlushSteps == InitSession /\ [][NextFlushSteps]_vars
SpecRead == InitSession /\ [][NextRead]_vars
SpecManager == InitManager /\ [][NextManager]_vars
SpecSession == InitSession /\ [][NextSession]_vars
SpecReuse == InitManager /\ [][NextReuse]_vars
SpecThreshold == InitThreshold /\ [][NextThreshold]_vars /\ LoopFairness

\* ------------------------------------------------------------- properties
AllDeltas == IncDeltas \cup {0 - d : d \in DecDeltas}

\* init() resolves in this step
InitResolves == loop.initPc # "done" /\ loop'.initPc = "done"

\* an increment()/decrement() call returns normally in this step
IncrementReturns == ops' = ops + 1 /\ lastCall' = "ok"

\* an increment()/decrement() call throws in this step
IncrementThrows == ops' = ops + 1 /\ lastCall' = "error"

EndsWith(text, rec) ==
    /\ Len(text) >= Len(rec)
    /\ SubSeq(text, Len(text) - Len(rec) + 1, Len(text)) = rec

\* C1: replay correctness in sync mode.  When the instance lost in the last
\* crash had become Ready with store value v0 and an empty log, and had since
\* only applied deltas d1..dn with no flush started, then init() of the next
\* instance resolves with value = v0 + d1 + ... + dn.
C1_ReplayCorrect ==
    [][(InitResolves /\ crashes > 0 /\ prev.ok)
          => this'.value = prev.v0 + prev.sum]_vars

C1_Witness ==
    /\ mode = "sync"
    /\ crashes = 1
    /\ prev.ok
    /\ prev.v0 = 7
    /\ prev.sum = 7
    /\ loop.initPc = "done"
    /\ this.value = 14
    /\ this.pending = 0

\* C2: in sync mode, whenever the instance is initialised and open and no
\* flush is in progress, store value + sum of the log's deltas = value.
C2_SyncLogInvariant ==
    (mode = "sync" /\ loop.initPc = "done" /\ this.db = "open"
       /\ loop.flushes = <<>>)
        => StoreValue + LogSum = this.value

\* C3: sync durability.  When increment(delta) returns in sync mode, the
\* log file ends with the record of delta.
C3_SyncDurability ==
    [][(mode = "sync" /\ IncrementReturns)
          => \E d \in AllDeltas :
                /\ this'.value = this.value + d
                /\ logFile'.exists
                /\ EndsWith(logFile'.text, FormatDelta(d))]_vars

C3_Witness ==
    /\ mode = "sync"
    /\ lastCall = "ok"
    /\ ops = 2
    /\ logFile.exists
    /\ logFile.text = FormatDelta(12) \o FormatDelta(0 - 5)

FileOpsFinished == ~loop.drain.active /\ loop.flushes = <<>>

\* C5: clean-shutdown round trip.  Once close() has resolved and the file
\* operations of the instance have finished, what init() of a new instance
\* computes (store value + replayed log) is the final in-memory value.
C5_CleanShutdownRoundTrip ==
    (loop.closePc = "done" /\ FileOpsFinished)
        => StoreValue + LogSum = this.value

\* C6: threshold-triggered flush.  In the threshold scenario (flushEvery > 0,
\* no call after the increment that reaches the threshold), reaching the
\* threshold leads to pending = 0 with the store holding the value; every
\* increment counts one in pending, and below the threshold no flush exists.
C6_ThresholdFlush ==
    /\ (Ready /\ this.pending >= flushEvery)
          ~> (this.pending = 0 /\ StoreValue = this.value)
    /\ [][(Ready /\ IncrementReturns)
             => /\ this'.pending = this.pending + 1
                /\ this'.pending < flushEvery => loop'.flushes = <<>>
                /\ this'.pending >= flushEvery => loop'.flushes # <<>>]_vars

C6_Witness ==
    /\ Ready
    /\ flushEvery = 2
    /\ ops = 2
    /\ this.pending = 0
    /\ this.value # 0
    /\ StoreValue = this.value
    /\ loop.flushes = <<>>

\* C7: with flushEvery = 0 no increment starts a flush.
C7_ZeroDisablesAutoFlush ==
    flushEvery = 0
        => \A i \in 1..Len(loop.flushes) : loop.flushes[i].who # "auto"

\* the db.run of a flush fails in this step
FlushWriteFails == faults' = faults + 1 /\ ops' = ops

\* an explicit flush() that was called after a failure, and that no
\* increment has overlapped, resolves in this step
RetryResolves ==
    /\ loop.retry
    /\ loop.flushPromise = "pending"
    /\ loop'.flushPromise = "ok"

\* C8: FlushFailed is retry-safe.  When the db.run of a flush fails, the log,
\* pending and the value are as before and an explicit flush() reports the
\* error; an explicit flush() called after the failure that succeeds leaves
\* store = value, the log empty and pending = 0.
C8_FlushRetrySafe ==
    [][/\ FlushWriteFails
          => /\ logFile' = logFile
             /\ this' = this
             /\ loop.flushes[DbHead(loop)].who = "user"
                   => loop'.flushPromise = "error"
       /\ RetryResolves
          => /\ StoreValue' = this'.value
             /\ LogText' = <<>>
             /\ this'.pending = 0]_vars

C10_LifecycleGuard ==
    [][((loop.initPc = "none" \/ this.db = "closed") /\ ops' = ops + 1)
          => /\ lastCall' = "error"
             /\ this' = this
             /\ logFile' = logFile]_vars

\* C11: flush() after close() is a no-op.  A flush() called on an instance
\* whose handle is closed resolves without error in the same step and changes
\* neither the store, the log, pending, the value nor the pending work.
C11_FlushAfterCloseNoOp ==
    [][(this.db = "closed" /\ flushCalls' = flushCalls + 1)
          => /\ loop'.flushPromise = "ok"
             /\ loop'.flushes = loop.flushes
             /\ dbRow' = dbRow
             /\ logFile' = logFile
             /\ this' = this]_vars

\* C12: close() is idempotent.  From the second close() on, close() does not
\* fail and no step changes the store, the log or the instance.
C12_CloseIdempotent ==
    [][loop'.closes = 2
          => /\ loop'.closePc # "failed"
             /\ dbRow' = dbRow
             /\ logFile' = logFile
             /\ this' = this]_vars

\* C13: mode validation.  The constructor throws exactly for a mode other
\* than "sync" and "async": an instance that exists has one of the two modes,
\* a construction that was rejected had neither, and the mode never changes.
C13_ModeValidated ==
    [][/\ mode' = mode
       /\ loop'.initPc = "rejected" => mode' \notin Modes
       /\ loop'.initPc \notin {"unbuilt", "rejected"} => mode' \in Modes]_vars

C13_Witness == mode = "batch" /\ loop.initPc = "rejected"

\* C14: idempotent flush.  Two flush() calls in a row, with no increment from
\* the first call to the end of the second: the value never changes and the
\* store holds it when each call resolves; from the second call to its end
\* the store does not change, the log stays empty and pending stays 0.
C14_FlushIdempotent ==
    [][/\ (loop.flushPromise \in {"pending", "again"}
            /\ loop'.flushPromise \in {"ok", "twice"})
          => /\ this'.value = this.value
             /\ StoreValue' = this'.value
       /\ (loop.flushPromise \in {"ok", "again"}
            /\ loop'.flushPromise \in {"again", "twice"})
          => /\ this'.value = this.value
             /\ dbRow' = dbRow
             /\ LogText = <<>> /\ LogText' = <<>>
             /\ this.pending = 0 /\ this'.pending = 0]_vars

\* the records of a log content: its lines
RECURSIVE Records(_)
Records(content) ==
    IF content = <<>> THEN <<>>
    ELSE IF \E i \in 1..Len(content) : content[i] = NL
         THEN LET k == CHOOSE i \in 1..Len(content) :
                           content[i] = NL /\ \A j \in 1..(i - 1) : content[j] # NL
              IN  <<SubSeq(content, 1, k - 1)>>
                      \o Records(SubSeq(content, k + 1, Len(content)))
         ELSE <<content>>

RECURSIVE StripBlanks(_)
StripBlanks(rec) ==
    IF rec # <<>> /\ Head(rec) = SP THEN StripBlanks(Tail(rec))
    ELSE IF rec # <<>> /\ rec[Len(rec)] = SP
         THEN StripBlanks(SubSeq(rec, 1, Len(rec) - 1))
         ELSE rec

\* a record is a valid signed integer: an optional sign and digits only
IsInteger(rec) ==
    LET r    == StripBlanks(rec)
        body == IF r # <<>> /\ Head(r) = "-" THEN Tail(r) ELSE r
    IN  body # <<>> /\ \A i \in 1..Len(body) : IsDigit(body[i])

RECURSIVE Magnitude(_)
Magnitude(ds) ==
    IF ds = <<>> THEN 0
    ELSE 10 * Magnitude(SubSeq(ds, 1, Len(ds) - 1)) + DigitVal(ds[Len(ds)])

IntegerValue(rec) ==
    LET r == StripBlanks(rec)
    IN  IF Head(r) = "-" THEN 0 - Magnitude(Tail(r)) ELSE Magnitude(r)

\* the sum of the records that are valid integers
RECURSIVE SumOfIntegers(_)
SumOfIntegers(recs) ==
    IF recs = <<>> THEN 0
    ELSE (IF IsInteger(Head(recs)) THEN IntegerValue(Head(recs)) ELSE 0)
             + SumOfIntegers(Tail(recs))

RECURSIVE LeadingBlanksOff(_)
LeadingBlanksOff(rec) ==
    IF rec # <<>> /\ Head(rec) = SP THEN LeadingBlanksOff(Tail(rec)) ELSE rec

\* the longest run of digits a sequence of characters starts with
RECURSIVE LeadingDigits(_)
LeadingDigits(cs) ==
    IF cs # <<>> /\ IsDigit(Head(cs))
    THEN <<Head(cs)>> \o LeadingDigits(Tail(cs)) ELSE <<>>

\* the number a record starts with (after blanks: an optional sign, digits),
\* or 0 when it starts with none
LeadingInteger(rec) ==
    LET r    == LeadingBlanksOff(rec)
        neg  == r # <<>> /\ Head(r) = "-"
        run  == LeadingDigits(IF neg THEN Tail(r) ELSE r)
    IN  IF neg THEN 0 - Magnitude(run) ELSE Magnitude(run)

RECURSIVE SumOfLeadingIntegers(_)
SumOfLeadingIntegers(recs) ==
    IF recs = <<>> THEN 0
    ELSE LeadingInteger(Head(recs)) + SumOfLeadingIntegers(Tail(recs))

C16_CounterArithmetic ==
    (arith.on /\ loop.initPc = "done") => this.value = arith.v0 + arith.sum

C16_Witness ==
    /\ arith.on
    /\ Ready
    /\ arith.v0 = 0
    /\ arith.sum = 0 - 10
    /\ this.value = 0 - 10
    /\ StoreValue = 0 - 5
    /\ loop.flushes = <<>>

\* nothing of the instance is scheduled: no timer, no append, no flush
Quiescent ==
    /\ this.flushTimer # "live"
    /\ loop.untracked = 0
    /\ ~loop.drain.active
    /\ loop.flushes = <<>>

\* C17: eventual drain.  In async mode, with a caller that never calls
\* flush() or close(), every delta in the write buffer is appended to the log
\* (or covered by a flush) by the timers and drains alone: whenever no timer,
\* append or flush is scheduled any more, the write buffer is empty.
C17_EventualDrain ==
    (mode = "async" /\ loop.initPc = "done" /\ Quiescent)
        => this.writeBuffer = <<>>

\* C18: close() cancels background draining.  Once close() has resolved, no
\* drain timer of the instance is scheduled and no append is in flight, so
\* no drain runs and nothing is appended to the log afterwards.
C18_CloseCancelsDraining ==
    (mode = "async" /\ Closed)
        => /\ this.flushTimer # "live"
           /\ loop.untracked = 0
           /\ ~loop.drain.active

\* C19: getValue() is a pure read.  In every state of the instance's life a
\* getValue() call returns the in-memory value and changes neither the
\* instance (value, pending, write buffer, timer), its pending work, the log
\* nor the store.
C19_GetValuePure ==
    [][got'.calls = got.calls + 1
          => /\ got'.value = this.value
             /\ this' = this
             /\ loop' = loop
             /\ logFile' = logFile
             /\ dbRow' = dbRow]_vars

C19_Witness ==
    /\ got.calls = 1
    /\ got.value = 12
    /\ this.value = 12
    /\ this.pending = 1
    /\ StoreValue = 0
    /\ loop.closePc = "none"

\* C20: when setup() returns, a counter that had no store and no log when
\* setup() was called has the value initial, and a counter that had persisted
\* state has the value init() recovered, a recovered 0 included.
C20_SetupKeepsRecovered ==
    [][(mgr.pc # "returned" /\ mgr'.pc = "returned")
          => this'.value = IF mgr'.persisted THEN mgr'.recovered
                           ELSE mgr'.initial]_vars

\* C21: reset(v).  When reset(v) resolves on an open counter, no increment
\* having been made since it was called, the in-memory value is v, the store
\* holds v, the log is empty and pending is 0, so that a crash at that moment
\* recovers v; the reset() call itself appends nothing to the log.
C21_ResetAuthoritative ==
    [][/\ (loop.reset.pc # "pending" /\ loop'.reset.pc = "pending")
           => logFile' = logFile
       /\ (loop.reset.pc = "pending" /\ loop'.reset.pc = "ok"
              /\ loop'.flushPromise = "ok")
           => /\ this'.value = loop.reset.val
              /\ dbRow'.exists /\ dbRow'.value = loop.reset.val
              /\ logFile'.exists => logFile'.text = <<>>
              /\ this'.pending = 0]_vars

\* C22: manager name reuse.  setup() for a name that the registry holds
\* returns the function the registry holds, makes no new engine instance,
\* leaves initial, jump, flushEvery and mode as they were and changes neither
\* the instance nor its files; a new instance is made only while the registry
\* does not hold the name.
C22_SetupReusesRegistered ==
    [][/\ mgr'.reuses = mgr.reuses + 1
           => /\ mgr'.ret = mgr.registry
              /\ mgr'.registry = mgr.registry
              /\ mgr'.setups = mgr.setups
              /\ mgr'.initial = mgr.initial /\ mgr'.jump = mgr.jump
              /\ flushEvery' = flushEvery /\ mode' = mode
              /\ this' = this /\ loop' = loop
              /\ dbRow' = dbRow /\ logFile' = logFile
       /\ mgr'.setups # mgr.setups => mgr.registry = 0]_vars

C22_Witness ==
    /\ mgr.reuses = 1
    /\ mgr.setups = 1
    /\ mgr.ret = 1
    /\ mgr.initial = 5
    /\ this.value = 17
    /\ this.pending = 1
    /\ Ready

\* C23: closeAll().  When closeAll() resolves the counter has been flushed
\* (the store holds its in-memory value) and closed and the registry holds no
\* name; a later setup() with the same name returns a new instance whose
\* value is the one the store held at that close.
C23_CloseAllFlushed ==
    (mgr.pc = "closing" /\ mgr'.pc = "none")
        => /\ this.db = "closed"
           /\ StoreValue = this.value
           /\ mgr'.registry = 0

C23_SetupAfterCloseAll ==
    (mgr.setups > 1 /\ mgr.pc # "returned" /\ mgr'.pc = "returned")
        => /\ mgr'.ret = mgr.setups
           /\ this'.value = mgr.atClose

C23_CloseAll == [][C23_CloseAllFlushed /\ C23_SetupAfterCloseAll]_vars

\* C24: no delta is lost to an overlapping flush.  In sync mode, over files
\* that were new when init() was called, whenever no flush is in progress the
\* store value plus the sum of the log records is the in-memory value.
C24_NoDeltaLostToFlush ==
    (mode = "sync" /\ loop.initPc = "done" /\ loop.flushes = <<>>)
        => StoreValue + LogSum = this.value

\* C25: the snapshot write and the log truncation are one step for a crash.
\* In sync mode, when the process crashes while a flush() has written the
\* store and not yet truncated the log, the value the next init() resolves
\* with is the in-memory value at the time of the crash.
C25_FlushCrashAtomic ==
    [][(mode = "sync" /\ atCrash.upserted
          /\ loop.initPc # "done" /\ loop'.initPc = "done")
          => this'.value = atCrash.value]_vars

\* C26: replayed deltas stay durable.  When an instance whose init() has
\* resolved is lost in a crash with no increment and no flush made on it, the
\* init() of the next instance resolves with the value the lost instance had
\* recovered, also when that one had replayed a non-empty log.
C26_RecoveryRepeatable ==
    [][(crashes > 0 /\ atCrash.ready /\ ops = 0 /\ flushCalls = 0
          /\ loop.initPc # "done" /\ loop'.initPc = "done")
          => this'.value = atCrash.value]_vars

\* C27: flush never runs ahead of the log.  In async mode, at the moment a
\* flush() calls db.run with the in-memory value the write buffer is empty
\* and no append of a drain is in flight.
DbRunsIssued(l) ==
    Cardinality({i \in 1..Len(l.flushes) : l.flushes[i].pc = "dbrun"})

C27_FlushAfterDrain ==
    [][(mode = "async" /\ DbRunsIssued(loop') > DbRunsIssued(loop))
          => (this'.writeBuffer = <<>> /\ ~loop'.drain.active)]_vars

\* C28: async crash recovery is prefix-consistent.  In async mode, when an
\* instance whose init() had resolved is lost in a crash, the init() of the
\* next instance resolves with the value the lost one started from plus the
\* sum of a prefix of the deltas applied to it.
PrefixSums(v0, deltas) ==
    {v0 + SumSeq(SubSeq(deltas, 1, k)) : k \in 0..Len(deltas)}

C28_AsyncPrefixConsistent ==
    [][(mode = "async" /\ arith.on /\ crashes > 0 /\ atCrash.ready
          /\ loop.initPc # "done" /\ loop'.initPc = "done")
          => this'.value \in PrefixSums(atCrash.v0, atCrash.deltas)]_vars

\* C29: no write to a released store.  With a caller that makes no call
\* after close(), no flush() calls db.run on a handle that close() has
\* released or is releasing, whatever flushes were in progress at close().
C29_NoWriteAfterRelease == ~loop.refused

\* C30: a failed drain requeues its batch.  When the append of a drain
\* fails, the log is unchanged, the write buffer is the failed batch followed
\* by the deltas that arrived during the drain, and a timer that will start
\* the next drain is scheduled.
C30_DrainFailureRequeues ==
    [][(loop.drain.active /\ faults' = faults + 1)
          => /\ logFile' = logFile
             /\ this'.writeBuffer = loop.drain.toWrite \o this.writeBuffer
             /\ this'.flushTimer = "live" \/ loop'.untracked > 0]_vars

\* C31: FIFO ordering.  In both modes the records the log holds are, in the
\* order they stand in the file, a subsequence of the deltas in the order
\* increment/decrement were called, also after batched drains and after a
\* failed drain put its batch back.
RECURSIVE RecordValues(_)
RecordValues(lines) ==
    IF lines = <<>> THEN <<>>
    ELSE IF Head(lines) = <<>> \/ ParseInt(Head(lines)).nan
         THEN RecordValues(Tail(lines))
         ELSE <<ParseInt(Head(lines)).val>> \o RecordValues(Tail(lines))

LogDeltas == RecordValues(Split(LogText))

RECURSIVE IsSubsequence(_, _)
IsSubsequence(a, b) ==
    IF a = <<>> THEN TRUE
    ELSE IF b = <<>> THEN FALSE
    ELSE IF Head(a) = Head(b) THEN IsSubsequence(Tail(a), Tail(b))
    ELSE IsSubsequence(a, Tail(b))

Unsettled == {"pending", "again", "overlapped"}

C32_AppendFailureSurfaced ==
    [][/\ ("user" \in loop.failedFor /\ loop.flushPromise \in Unsettled
              /\ loop'.flushPromise \notin Unsettled)
           => loop'.flushPromise = "error"
       /\ ("close" \in loop.failedFor /\ loop'.closePc # loop.closePc)
           => loop'.closePc # "done"
       /\ (loop.drain.active /\ faults' = faults + 1 /\ Awaiting(loop) = {})
           => (loop'.flushPromise = loop.flushPromise
                 /\ loop'.closePc = loop.closePc)]_vars

\* C33: pending counts the unflushed operations.  With no flush in progress
\* the store holds the starting value plus the first k deltas, for some k,
\* and pending is the number of the calls after these; pending goes from
\* non-zero to 0 only in the step that ends a flush() after its store write
\* and truncation.
C33_PendingWhenIdle ==
    (arith.on /\ loop.initPc = "done" /\ loop.flushes = <<>>)
        => \E k \in 0..Len(arith.seq) :
               /\ StoreValue = arith.v0 + SumSeq(SubSeq(arith.seq, 1, k))
               /\ this.pending = Len(arith.seq) - k

C33_PendingReset ==
    (this.pending # 0 /\ this'.pending = 0)
        => /\ \E i \in 1..Len(loop.flushes) : loop.flushes[i].pc = "truncated"
           /\ Len(loop'.flushes) = Len(loop.flushes) - 1

C33_PendingCountsUnflushed ==
    [][C33_PendingWhenIdle' /\ C33_PendingReset]_vars

\* C34: flush step order.  A flush() starts truncating the log only in the
\* step in which its db.run resolved with the store written; a db.run that
\* rejects leaves the log, pending and the store as they were and starts no
\* truncation; the log loses content only to the truncation of such a flush
\* (init-time replay aside); pending is reset only by a flush() whose
\* truncation was carried out.
FlushesAt(l, pc) ==
    Cardinality({i \in 1..Len(l.flushes) : l.flushes[i].pc = pc})

C34_WriteBeforeTruncate ==
    FlushesAt(loop', "truncating") > FlushesAt(loop, "truncating")
        => /\ FlushesAt(loop', "dbrun") < FlushesAt(loop, "dbrun")
           /\ faults' = faults
           /\ dbRow'.exists /\ dbRow'.value = loop.flushes[DbHead(loop)].val
           /\ logFile' = logFile

C34_FailedWriteKeepsLog ==
    (faults' = faults + 1 /\ FlushesAt(loop', "dbrun") < FlushesAt(loop, "dbrun"))
        => /\ logFile' = logFile /\ dbRow' = dbRow /\ this' = this
           /\ FlushesAt(loop', "truncating") = FlushesAt(loop, "truncating")

C34_OnlyFlushTruncates ==
    (Len(LogText') < Len(LogText) /\ loop.initPc = "done")
        => /\ FlushesAt(loop', "truncating") < FlushesAt(loop, "truncating")
           /\ FlushesAt(loop', "truncated") > FlushesAt(loop, "truncated")

C34_PendingAfterTruncate ==
    this'.pending < this.pending
        => /\ this'.pending = 0
           /\ FlushesAt(loop', "truncated") < FlushesAt(loop, "truncated")

C34_FlushStepOrder ==
    [][/\ C34_WriteBeforeTruncate
       /\ C34_FailedWriteKeepsLog
       /\ C34_OnlyFlushTruncates
       /\ C34_PendingAfterTruncate]_vars

C34_Witness ==
    /\ faults = 1
    /\ loop.flushPromise = "error"
    /\ loop.flushes = <<>>
    /\ LogDeltas = <<12>>
    /\ this.pending = 1
    /\ StoreValue = 0

\* C35: init() postcondition.  init() never changes the value the store
\* holds (0 standing for a missing row) and leaves the log alone until it
\* resolves; when it resolves the in-memory value is the store value plus the
\* sum of the numbers that the records of the log yield, the log is empty and
\* pending is 0.
C35_InitPostcondition ==
    [][loop.initPc # "done"
          => /\ StoreValue' = StoreValue
             /\ loop'.initPc # "done" => logFile' = logFile
             /\ loop'.initPc = "done"
                  => /\ this'.value =
                            StoreValue' + SumOfLeadingIntegers(Records(LogText))
                     /\ LogText' = <<>>
                     /\ this'.pending = 0
                     /\ dbRow'.exists]_vars

\* C39: a failure of init() to read or to clear the log loses no record.
\* When init() resolves, either its value holds the numbers of the log's
\* records or the log is as it was; and once init() has resolved without the
\* records it could not read, no later step takes a character off a log whose
\* records add up to something.
C39_ReplayFailureKeepsRecords ==
    [][/\ InitResolves
          => \/ this'.value =
                    StoreValue + SumOfLeadingIntegers(Records(LogText))
             \/ logFile' = logFile
       /\ (/\ loop.initPc = "done" /\ loop.unread /\ loop'.initPc = "done"
           /\ SumOfLeadingIntegers(Records(LogText)) # 0)
          => /\ Len(LogText') >= Len(LogText)
             /\ SubSeq(LogText', 1, Len(LogText)) = LogText]_vars

\* C36: Write Buffer invariant (async).  In every state of a Ready async
\* instance the value is the value init() resolved with plus every delta
\* applied since, and the Write Buffer holds the last of those deltas, in
\* order.  An increment(delta) that stays below the threshold adds delta to
\* the value, 1 to pending and delta to the end of the buffer, schedules the
\* timer if none is held, and changes nothing else: no log or store content,
\* no drain, no flush.
IsSuffix(a, b) ==
    Len(a) <= Len(b) /\ SubSeq(b, Len(b) - Len(a) + 1, Len(b)) = a

C36_BufferInValue ==
    (mode = "async" /\ arith.on /\ loop.initPc = "done")
        => /\ this.value = arith.v0 + arith.sum
           /\ IsSuffix(this.writeBuffer, arith.seq)

C36_IncrementOnlyBuffers ==
    (mode = "async" /\ arith.on /\ IncrementReturns
       /\ this.pending + 1 < flushEvery)
        => LET delta == arith'.seq[Len(arith'.seq)]
           IN  /\ this'.value = this.value + delta
               /\ this'.pending = this.pending + 1
               /\ this'.writeBuffer = Append(this.writeBuffer, delta)
               /\ this'.flushTimer =
                      IF this.flushTimer = "null" THEN "live" ELSE this.flushTimer
               /\ this'.isWriting = this.isWriting
               /\ this'.db = this.db
               /\ loop'.drain = loop.drain
               /\ loop'.flushes = loop.flushes
               /\ loop'.untracked = loop.untracked
               /\ UNCHANGED <<logFile, dbRow>>

C36_WriteBufferInvariant ==
    [][C36_BufferInValue' /\ C36_IncrementOnlyBuffers]_vars

C36_Witness ==
    /\ mode = "async"
    /\ loop.initPc = "done"
    /\ arith.seq = <<12, 0 - 5>>
    /\ this.writeBuffer = <<12, 0 - 5>>
    /\ this.value = arith.v0 + 7
    /\ this.flushTimer = "live"
    /\ ~this.isWriting
    /\ LogText = <<>>

\* C37: single in-flight drain.  isWriting is set exactly while an append of
\* a drain is in flight, and a step that puts a batch in flight is taken only
\* when no append is in flight: a timer, a flush() or a close() that asks for
\* a drain during an append starts none.
C37_SingleDrainInFlight ==
    [][/\ this'.isWriting = loop'.drain.active
       /\ (loop'.drain.active /\ loop'.drain # loop.drain)
             => (~loop.drain.active /\ ~this.isWriting)]_vars

C37_Witness ==
    /\ loop.drain.active
    /\ loop.drain.toWrite = <<12>>
    /\ this.writeBuffer = <<0 - 5>>
    /\ loop.flushPromise = "pending"

\* C38: single drain timer.  In every state of an async instance at most
\* one drain timer is scheduled, no scheduled timer has lost its handle, and
\* this.flushTimer is non-null only while the timer it names has not fired.
C38_SingleDrainTimer ==
    mode = "async"
        => /\ loop.untracked + (IF this.flushTimer = "live" THEN 1 ELSE 0) <= 1
           /\ loop.untracked = 0
           /\ this.flushTimer # "fired"

====
